---- MODULE Spec2Model ----
(***************************************************************************)
(* Earl Box: the upload / persist / list / serve pipeline of               *)
(* app/file_service.py over its two stores, the content directory          *)
(* (UPLOADS_DIR) and the uploaded_files table (app/models.py).             *)
(*                                                                         *)
(* Strings that the code inspects (file names, stored names, URLs) are     *)
(* sequences of one-character strings; a uuid4 is one opaque token that    *)
(* holds no "." and no "/".  An Optional value is the empty set (None) or  *)
(* a singleton.  File content is a byte count with a tag that stands for   *)
(* the bytes themselves.                                                   *)
(***************************************************************************)
EXTENDS Integers, Sequences, FiniteSets, TLC

\* ------------------------------------------------------------- bounds ----
\* How many upload calls a behaviour makes.
MaxCalls == 2
\* How many I/O or database faults the environment injects in a behaviour.
MaxFaults == 1
\* The largest reading of the wall clock.
MaxClock == 1

\* ---------------------------------------------------------- constants ----
\* file_service.py:14   MAX_FILE_SIZE = 300 * 1024 * 1024
MAX_FILE_SIZE == 300 * 1024 * 1024

\* file_service.py:13   UPLOADS_DIR = Path("uploads")
UPLOADS_DIR == "uploads"

None == {}
Some(x) == {x}
The(opt) == CHOOSE x \in opt : TRUE

\* ------------------------------------------------------------- inputs ----
\* A file that open(path, "wb") has created or truncated and that no byte reached.
EmptyBlob == [size |-> 0, data |-> ""]

\* The upload_file objects a caller passes: filename (absent, empty, with an
\* extension, a dot-file), the bytes file.read() returns (their length and a
\* tag for their value) and the content type the client declared, if any.
Requests ==
  { [filename |-> None,
     content |-> [size |-> 1, data |-> "x"], content_type |-> None],
    [filename |-> Some(<<>>),
     content |-> [size |-> 1, data |-> "x"], content_type |-> None],
    [filename |-> Some(<<"a", ".", "t">>),
     content |-> [size |-> 1, data |-> "x"], content_type |-> None],
    [filename |-> Some(<<".", "t">>),
     content |-> [size |-> MAX_FILE_SIZE, data |-> "y"],
     content_type |-> Some("image/png")],
    [filename |-> Some(<<"a", ".", "t">>),
     content |-> [size |-> MAX_FILE_SIZE + 1, data |-> "z"], content_type |-> None] }

FileNames == { r.filename : r \in Requests }

\* uuid.uuid4() rendered by str(): a random 128-bit token.  Nothing in the code
\* keeps two calls from returning the same one.
UUIDs == { "u1", "u2" }

Procs == { "p1", "p2" }

\* ------------------------------------------------------ pure functions ----
\* str.rfind(ch): the last index of ch in s (1-based), 0 when there is none.
RFind(s, ch) ==
  LET hits == { i \in 1..Len(s) : s[i] = ch }
  IN  IF hits = {} THEN 0 ELSE CHOOSE i \in hits : \A j \in hits : j <= i

\* PurePath.name: the final path component.
PathName(s) == SubSeq(s, RFind(s, "/") + 1, Len(s))

\* PurePath.suffix: name[i:] for i = name.rfind('.') when 0 < i < len(name) - 1
\* (0-based), the empty string otherwise.
PathSuffix(s) ==
  LET name == PathName(s)
      i == RFind(name, ".")
  IN  IF 1 < i /\ i < Len(name) THEN SubSeq(name, i, Len(name)) ELSE <<>>

\* generate_unique_filename, for the uuid4 the call draws.
generate_unique_filename(original_filename, unique_id) ==
  <<unique_id>> \o PathSuffix(original_filename)

\* mimetypes.guess_type(filename)[0], for the extensions of FileNames.
GuessType(filename) ==
  IF PathSuffix(filename) = <<".", "t">> THEN Some("text/plain") ELSE None

\* upload_file.content_type or guess_type(...)[0] or "application/octet-stream"
ContentType(declared, filename) ==
  IF declared # None /\ declared # Some("") THEN The(declared)
  ELSE IF GuessType(filename) # None THEN The(GuessType(filename))
  ELSE "application/octet-stream"

\* f"/files/{stored_filename}"
PublicUrl(stored_filename) == <<"/files/">> \o stored_filename

RECURSIVE SumSizes(_)
SumSizes(rows) ==
  IF rows = <<>> THEN 0 ELSE Head(rows).file_size + SumSizes(Tail(rows))

\* -------------------------------------------------------------- state ----
VARIABLES
  dirExists,        \* UPLOADS_DIR is a directory on disk
  blobs,            \* the files in UPLOADS_DIR: a set of [name, content]
  table,            \* the rows of uploaded_files, in insertion order
  clock,            \* the last reading of datetime.utcnow()
  pc,               \* each upload call's position in save_uploaded_file
  args,             \* each call's upload_file: filename, content, content_type
  stored_filename,  \* each call's local stored_filename (None before line 101)
  uploaded_file,    \* each call's local uploaded_file (None before line 115)
  result,           \* what the call returned: None or the record
  raised,           \* the call ended with an exception leaving the function
  reply,            \* what the last read operation returned
  calls,            \* upload calls made so far
  faults,           \* faults injected so far
  returned,         \* history: the successful uploads, record and bytes
  ev                \* a second content directory and table, with the calls of
                    \* save_upload_event made on them

vars ==
  << dirExists, blobs, table, clock, pc, args, stored_filename, uploaded_file,
     result, raised, reply, calls, faults, returned, ev >>

storage == << dirExists, blobs, table >>

NoArgs == [filename |-> None, content |-> EmptyBlob, content_type |-> None]
NoReply == [op |-> "none"]

\* The second world before any call: no directory, no file, no row.
NoEvent == [name |-> None, type |-> None, content |-> EmptyBlob]
EvInit ==
  [ pc |-> "idle", upload_event |-> NoEvent, dirExists |-> FALSE, blobs |-> {},
    table |-> << >>, stored_filename |-> None, uploaded_file |-> None,
    result |-> None, raised |-> FALSE ]

Init ==
  /\ dirExists = FALSE
  /\ blobs = {}
  /\ table = << >>
  /\ clock = 0
  /\ pc = [p \in Procs |-> "idle"]
  /\ args = [p \in Procs |-> NoArgs]
  /\ stored_filename = [p \in Procs |-> None]
  /\ uploaded_file = [p \in Procs |-> None]
  /\ result = [p \in Procs |-> None]
  /\ raised = [p \in Procs |-> FALSE]
  /\ reply = NoReply
  /\ calls = 0
  /\ faults = 0
  /\ returned = << >>
  /\ ev = EvInit

\* ------------------------------------------------------- the two stores ----
\* Path.exists() of UPLOADS_DIR / name.
FileExists(name) == \E b \in blobs : b.name = name

\* The bytes of UPLOADS_DIR / name.
FileContent(name) == (CHOOSE b \in blobs : b.name = name).content

\* open(path, "wb") then f.write(content): the file holds exactly content.
WriteFile(name, content) ==
  { b \in blobs : b.name # name } \cup { [name |-> name, content |-> content] }

\* Path.unlink()
Unlink(name) == { b \in blobs : b.name # name }

StoredNames == { table[i].stored_filename : i \in 1..Len(table) }

InsertUnchecked(name) == FALSE

\* models.py:13   stored_filename: str = Field(max_length=255, unique=True)
\* The INSERT of a row whose stored_filename is already in the table fails.
UniqueViolation(name) == name \in StoredNames

\* models.py:11   id: Optional[int] = Field(default=None, primary_key=True)
NextId == Len(table) + 1

\* ------------------------------------------------- save_uploaded_file ----
Clear(p) ==
  /\ stored_filename' = [stored_filename EXCEPT ![p] = None]
  /\ uploaded_file' = [uploaded_file EXCEPT ![p] = None]
  /\ result' = [result EXCEPT ![p] = None]
  /\ raised' = [raised EXCEPT ![p] = FALSE]

Goto(p, label) == pc' = [pc EXCEPT ![p] = label]

\* return None
ReturnNone(p) ==
  /\ Goto(p, "done")
  /\ result' = [result EXCEPT ![p] = None]
  /\ raised' = raised

\* An exception leaves save_uploaded_file.
Raise(p) ==
  /\ Goto(p, "done")
  /\ result' = [result EXCEPT ![p] = None]
  /\ raised' = [raised EXCEPT ![p] = TRUE]

Fault ==
  /\ faults < MaxFaults
  /\ faults' = faults + 1

\* A caller invokes save_uploaded_file(upload_file).
Call(p) ==
  /\ pc[p] \in { "idle", "done" }
  /\ calls < MaxCalls
  /\ calls' = calls + 1
  /\ \E upload_file \in Requests : args' = [args EXCEPT ![p] = upload_file]
  /\ Goto(p, "start")
  /\ Clear(p)
  /\ reply' = NoReply
  /\ UNCHANGED << dirExists, blobs, table, clock, faults, returned >>

\* line 90   if upload_file.filename is None
FilenameRejected(filename) == filename = None

AcceptAnySize(content) == FALSE

\* line 95   if len(content) > MAX_FILE_SIZE
TooLarge(content) == content.size > MAX_FILE_SIZE

\* lines 90-96: the two early returns.
CheckInput(p) ==
  /\ pc[p] = "start"
  /\ IF FilenameRejected(args[p].filename) \/ TooLarge(args[p].content)
       THEN ReturnNone(p)
       ELSE Goto(p, "mkdir") /\ UNCHANGED << result, raised >>
  /\ reply' = NoReply
  /\ UNCHANGED << dirExists, blobs, table, clock, args, stored_filename,
                  uploaded_file, calls, faults, returned >>

\* line 98   ensure_uploads_directory(), outside the try block:
\* UPLOADS_DIR.mkdir(exist_ok=True) creates the directory or raises OSError.
EnsureDir(p) ==
  /\ pc[p] = "mkdir"
  /\ \/ /\ dirExists' = TRUE
        /\ Goto(p, "generate")
        /\ UNCHANGED << result, raised, faults >>
     \/ /\ Fault
        /\ Raise(p)
        /\ UNCHANGED dirExists
  /\ reply' = NoReply
  /\ UNCHANGED << blobs, table, clock, args, stored_filename, uploaded_file,
                  calls, returned >>

\* lines 101-102   stored_filename = generate_unique_filename(filename)
GenerateName(p) ==
  /\ pc[p] = "generate"
  /\ \E u \in UUIDs :
       stored_filename' = [stored_filename EXCEPT ![p] =
         Some(generate_unique_filename(The(args[p].filename), u))]
  /\ Goto(p, "open")
  /\ reply' = NoReply
  /\ UNCHANGED << dirExists, blobs, table, clock, args, uploaded_file, result,
                  raised, calls, faults, returned >>

\* line 106   open(file_path, "wb"): creates the file, or truncates the one
\* that is there, or raises.
OpenBlob(p) ==
  /\ pc[p] = "open"
  /\ \/ /\ blobs' = WriteFile(The(stored_filename[p]), EmptyBlob)
        /\ Goto(p, "write")
        /\ UNCHANGED faults
     \/ /\ Fault
        /\ Goto(p, "except")
        /\ UNCHANGED blobs
  /\ reply' = NoReply
  /\ UNCHANGED << dirExists, table, clock, args, stored_filename, uploaded_file,
                  result, raised, calls, returned >>

\* line 107   f.write(content) and the close of the with block, or an OSError
\* (disk full) that leaves the file as open made it.
WriteBlob(p) ==
  /\ pc[p] = "write"
  /\ \/ /\ blobs' = WriteFile(The(stored_filename[p]), args[p].content)
        /\ Goto(p, "record")
        /\ UNCHANGED faults
     \/ /\ Fault
        /\ Goto(p, "except")
        /\ UNCHANGED blobs
  /\ reply' = NoReply
  /\ UNCHANGED << dirExists, table, clock, args, stored_filename, uploaded_file,
                  result, raised, calls, returned >>

\* lines 110-122   the UploadedFile object, stamped with datetime.utcnow().
\* The clock never runs backwards; two readings may be equal.
BuildRecord(p) ==
  /\ pc[p] = "record"
  /\ \E now \in clock..MaxClock :
       /\ clock' = now
       /\ uploaded_file' = [uploaded_file EXCEPT ![p] = Some(
            [ id |-> None,
              original_filename |-> The(args[p].filename),
              stored_filename |-> The(stored_filename[p]),
              file_size |-> args[p].content.size,
              content_type |-> ContentType(args[p].content_type, The(args[p].filename)),
              upload_timestamp |-> now,
              public_url |-> PublicUrl(The(stored_filename[p])) ])]
  /\ Goto(p, "commit")
  /\ reply' = NoReply
  /\ UNCHANGED << dirExists, blobs, table, args, stored_filename, result, raised,
                  calls, faults, returned >>

\* lines 124-126   session.add(uploaded_file); session.commit(): the row is
\* in the table and the object carries the id the INSERT gave it, or the
\* commit raises (a uniqueness violation of stored_filename, or a database
\* fault) and the table is as it was.
Commit(p) ==
  /\ pc[p] = "commit"
  /\ \/ /\ ~UniqueViolation(The(stored_filename[p]))
        /\ table' = Append(table, [The(uploaded_file[p]) EXCEPT !.id = Some(NextId)])
        /\ uploaded_file' = [uploaded_file EXCEPT ![p] =
             Some([The(uploaded_file[p]) EXCEPT !.id = Some(NextId)])]
        /\ Goto(p, "refresh")
        /\ UNCHANGED faults
     \/ /\ UniqueViolation(The(stored_filename[p]))
        /\ Goto(p, "except")
        /\ UNCHANGED << table, uploaded_file, faults >>
     \/ /\ Fault
        /\ Goto(p, "except")
        /\ UNCHANGED << table, uploaded_file >>
  /\ reply' = NoReply
  /\ UNCHANGED << dirExists, blobs, clock, args, stored_filename, result, raised,
                  calls, returned >>

\* The row session.refresh(uploaded_file) reloads: the one this call committed.
CommittedRow(p) ==
  CHOOSE r \in { table[i] : i \in 1..Len(table) } :
    r.stored_filename = The(stored_filename[p])

\* lines 127-128   session.refresh(uploaded_file); return uploaded_file:
\* the SELECT after the commit succeeds, or raises into the except block.
Refresh(p) ==
  /\ pc[p] = "refresh"
  /\ \/ /\ Goto(p, "done")
        /\ uploaded_file' = [uploaded_file EXCEPT ![p] = Some(CommittedRow(p))]
        /\ result' = [result EXCEPT ![p] = Some(CommittedRow(p))]
        /\ returned' = Append(returned,
             [record |-> CommittedRow(p), content |-> args[p].content])
        /\ UNCHANGED faults
     \/ /\ Fault
        /\ Goto(p, "except")
        /\ UNCHANGED << uploaded_file, result, returned >>
  /\ reply' = NoReply
  /\ UNCHANGED << dirExists, blobs, table, clock, args, stored_filename, raised,
                  calls >>

\* lines 130-137   except Exception: if file_path.exists(): file_path.unlink();
\* return None.  An OSError of unlink leaves the handler and the function.
Except(p) ==
  /\ pc[p] = "except"
  /\ \/ /\ FileExists(The(stored_filename[p]))
        /\ blobs' = Unlink(The(stored_filename[p]))
        /\ ReturnNone(p)
        /\ UNCHANGED faults
     \/ /\ FileExists(The(stored_filename[p]))
        /\ Fault
        /\ Raise(p)
        /\ UNCHANGED blobs
     \/ /\ ~FileExists(The(stored_filename[p]))
        /\ ReturnNone(p)
        /\ UNCHANGED << blobs, faults >>
  /\ reply' = NoReply
  /\ UNCHANGED << dirExists, table, clock, args, stored_filename, uploaded_file,
                  calls, returned >>

\* -------------------------------------------------- save_upload_event ----
\* save_upload_event runs on the stores of ev.  Each step is a function of the
\* world w it starts from and of what the environment supplies to it: the
\* uuid drawn, the reading of the clock, whether the step's system call fails.

\* The fields of events.UploadEventArguments the function reads.
UploadEvent(upload_file) ==
  [ name |-> upload_file.filename,
    type |-> upload_file.content_type,
    content |-> upload_file.content ]

\* The page's upload widget calls save_upload_event(upload_event).
EvCall(w, upload_event) ==
  [w EXCEPT !.pc = "start", !.upload_event = upload_event,
            !.stored_filename = None, !.uploaded_file = None,
            !.result = None, !.raised = FALSE]

EvRejectsEmptyName(upload_event) ==
  upload_event.name = None \/ upload_event.name = Some(<< >>)

\* line 40   if upload_event.name is None
EvFilenameRejected(upload_event) == upload_event.name = None

\* line 45   if len(content) > MAX_FILE_SIZE
EvTooLarge(upload_event) == upload_event.content.size > MAX_FILE_SIZE

EvReturnNone(w) == [w EXCEPT !.pc = "done", !.result = None]

EvRaise(w) == [w EXCEPT !.pc = "done", !.result = None, !.raised = TRUE]

\* lines 40-46: the two early returns.
EvCheckInput(w) ==
  IF EvFilenameRejected(w.upload_event) \/ EvTooLarge(w.upload_event)
    THEN EvReturnNone(w)
    ELSE [w EXCEPT !.pc = "mkdir"]

\* line 48   ensure_uploads_directory(), outside the try block.
EvEnsureDir(w, fails) ==
  IF fails THEN EvRaise(w)
  ELSE [w EXCEPT !.dirExists = TRUE, !.pc = "generate"]

\* lines 51-52   stored_filename = generate_unique_filename(upload_event.name)
EvGenerateName(w, unique_id) ==
  [w EXCEPT !.stored_filename =
              Some(generate_unique_filename(The(w.upload_event.name), unique_id)),
            !.pc = "open"]

EvFileExists(w) == \E b \in w.blobs : b.name = The(w.stored_filename)

EvWriteFile(w, content) ==
  { b \in w.blobs : b.name # The(w.stored_filename) }
    \cup { [name |-> The(w.stored_filename), content |-> content] }

\* line 56   open(file_path, "wb")
EvOpenBlob(w, fails) ==
  IF fails THEN [w EXCEPT !.pc = "except"]
  ELSE [w EXCEPT !.blobs = EvWriteFile(w, EmptyBlob), !.pc = "write"]

\* line 57   f.write(content)
EvWriteBlob(w, fails) ==
  IF fails THEN [w EXCEPT !.pc = "except"]
  ELSE [w EXCEPT !.blobs = EvWriteFile(w, w.upload_event.content), !.pc = "record"]

\* line 60   upload_event.type or guess_type(upload_event.name)[0] or
\*           "application/octet-stream"
EvContentType(upload_event) ==
  IF upload_event.type # None /\ upload_event.type # Some("")
    THEN The(upload_event.type)
  ELSE IF GuessType(The(upload_event.name)) # None
    THEN The(GuessType(The(upload_event.name)))
  ELSE "application/octet-stream"

\* lines 63-70   the UploadedFile object.
EvBuildRecord(w, now) ==
  [w EXCEPT !.uploaded_file = Some(
              [ id |-> None,
                original_filename |-> The(w.upload_event.name),
                stored_filename |-> The(w.stored_filename),
                file_size |-> w.upload_event.content.size,
                content_type |-> EvContentType(w.upload_event),
                upload_timestamp |-> now,
                public_url |-> <<"/files/">> \o The(w.stored_filename) ]),
            !.pc = "commit"]

EvUniqueViolation(w) ==
  \E i \in 1..Len(w.table) : w.table[i].stored_filename = The(w.stored_filename)

\* lines 72-74   session.add(uploaded_file); session.commit()
EvCommit(w, fails) ==
  IF fails \/ EvUniqueViolation(w) THEN [w EXCEPT !.pc = "except"]
  ELSE LET row == [The(w.uploaded_file) EXCEPT !.id = Some(Len(w.table) + 1)]
       IN  [w EXCEPT !.table = Append(w.table, row),
                     !.uploaded_file = Some(row),
                     !.pc = "refresh"]

EvCommittedRow(w) ==
  CHOOSE r \in { w.table[i] : i \in 1..Len(w.table) } :
    r.stored_filename = The(w.stored_filename)

\* lines 75-76   session.refresh(uploaded_file); return uploaded_file
EvRefresh(w, fails) ==
  IF fails THEN [w EXCEPT !.pc = "except"]
  ELSE [w EXCEPT !.uploaded_file = Some(EvCommittedRow(w)),
                 !.result = Some(EvCommittedRow(w)),
                 !.pc = "done"]

\* lines 78-85   except Exception: if file_path.exists(): file_path.unlink();
\* return None.  An OSError of unlink leaves the function.
EvExcept(w, fails) ==
  IF ~EvFileExists(w) THEN EvReturnNone(w)
  ELSE IF fails THEN EvRaise(w)
  ELSE [EvReturnNone(w) EXCEPT
          !.blobs = { b \in w.blobs : b.name # The(w.stored_filename) }]

\* The step save_upload_event takes from where it stands in w.
save_upload_event(w, upload_event, unique_id, now, fails) ==
  CASE w.pc \in { "idle", "done" } -> EvCall(w, upload_event)
    [] w.pc = "start"    -> EvCheckInput(w)
    [] w.pc = "mkdir"    -> EvEnsureDir(w, fails)
    [] w.pc = "generate" -> EvGenerateName(w, unique_id)
    [] w.pc = "open"     -> EvOpenBlob(w, fails)
    [] w.pc = "write"    -> EvWriteBlob(w, fails)
    [] w.pc = "record"   -> EvBuildRecord(w, now)
    [] w.pc = "commit"   -> EvCommit(w, fails)
    [] w.pc = "refresh"  -> EvRefresh(w, fails)
    [] w.pc = "except"   -> EvExcept(w, fails)

\* ------------------------------------------------------ read operations ----
Rows == { table[i] : i \in 1..Len(table) }

\* lines 29-35   get_file_stats: len(files) and sum(file.file_size ...)
get_file_stats ==
  [total_files |-> Len(table), total_size_bytes |-> SumSizes(table)]

GetFileStats ==
  /\ reply' = [op |-> "stats", stats |-> get_file_stats]
  /\ UNCHANGED << dirExists, blobs, table, clock, pc, args, stored_filename,
                  uploaded_file, result, raised, calls, faults, returned >>

OrdersAscending(files) ==
  \A i, j \in 1..Len(files) :
    i < j => files[i].upload_timestamp <= files[j].upload_timestamp

\* order_by(desc(UploadedFile.upload_timestamp)): no earlier row has a smaller
\* timestamp than a later one.
OrderedDesc(files) ==
  \A i, j \in 1..Len(files) :
    i < j => files[i].upload_timestamp >= files[j].upload_timestamp

\* Every arrangement of the rows that the ORDER BY allows: the statement names
\* no second sort key, so rows with equal timestamps come in any order.
Listings ==
  LET n == Len(table)
      perms == { f \in [1..n -> 1..n] : \A i, j \in 1..n : f[i] = f[j] => i = j }
  IN  { files \in { [i \in 1..n |-> table[f[i]]] : f \in perms } : OrderedDesc(files) }

\* lines 148-153   get_all_uploaded_files
GetAllUploadedFiles ==
  /\ \E files \in Listings : reply' = [op |-> "list", files |-> files]
  /\ UNCHANGED << dirExists, blobs, table, clock, pc, args, stored_filename,
                  uploaded_file, result, raised, calls, faults, returned >>

\* The other files of the working directory, beside UPLOADS_DIR.
Siblings == { <<"x">> }

\* str.find(ch): the first index of ch in s (1-based), 0 when there is none.
Find(s, ch) ==
  LET hits == { i \in 1..Len(s) : s[i] = ch }
  IN  IF hits = {} THEN 0 ELSE CHOOSE i \in hits : \A j \in hits : i <= j

\* The components of a relative path: its parts between the "/".
RECURSIVE Components(_)
Components(s) ==
  IF Find(s, "/") = 0 THEN << s >>
  ELSE << SubSeq(s, 1, Find(s, "/") - 1) >>
         \o Components(SubSeq(s, Find(s, "/") + 1, Len(s)))

Nowhere == [at |-> "nowhere", name |-> <<>>]
At(place) == [at |-> place, name |-> <<>>]

\* One component further from a place of the file system.  Path drops "" and
\* "."; ".." is kept and the operating system follows it; a regular file has
\* nothing below it.
StepInto(loc, comp) ==
  IF loc.at = "nowhere" \/ comp \in { <<>>, <<".">> } THEN loc
  ELSE IF comp = <<".", ".">> THEN
    CASE loc.at = "uploads" -> At("cwd")
      [] loc.at = "cwd" -> At("above")
      [] loc.at = "above" -> At("above")
      [] OTHER -> Nowhere
  ELSE
    CASE loc.at = "uploads" ->
           IF FileExists(comp) THEN [at |-> "blob", name |-> comp] ELSE Nowhere
      [] loc.at = "cwd" ->
           IF comp = << UPLOADS_DIR >> /\ dirExists THEN At("uploads")
           ELSE IF comp \in Siblings THEN [at |-> "sibling", name |-> comp]
           ELSE Nowhere
      [] OTHER -> Nowhere

RECURSIVE Walk(_, _)
Walk(loc, comps) ==
  IF comps = <<>> THEN loc ELSE Walk(StepInto(loc, Head(comps)), Tail(comps))

\* What UPLOADS_DIR / name is on disk (name relative, as a route segment or a
\* stored name is).
Resolve(name) ==
  Walk(IF dirExists THEN At("uploads") ELSE Nowhere, Components(name))

\* Path.exists() of UPLOADS_DIR / name: true of whatever the path leads to, a
\* directory included.
PathExists(name) == Resolve(name).at # "nowhere"

\* The names a client asks for: every name the generator can issue, a name it
\* never issues, the empty name and two names that climb out of UPLOADS_DIR.
QueryNames ==
  { generate_unique_filename(The(f), u) : f \in FileNames \ {None}, u \in UUIDs }
    \cup { <<"n">>, <<>>, <<".", ".">>, <<".", ".", "/", "x">> }

\* lines 140-145   get_file_path: UPLOADS_DIR / stored_filename if it exists.
get_file_path(name) ==
  IF PathExists(name) THEN Some([dir |-> UPLOADS_DIR, name |-> name]) ELSE None

GetFilePath(name) ==
  /\ reply' = [op |-> "path", name |-> name, path |-> get_file_path(name)]
  /\ UNCHANGED << dirExists, blobs, table, clock, pc, args, stored_filename,
                  uploaded_file, result, raised, calls, faults, returned >>

\* earl_box.py:18   @app.get("/files/{filename}"): the route matches a URL
\* made of "/files/" and one non-empty segment without "/", which is the
\* filename parameter.
RouteFilename(url) ==
  IF /\ Len(url) > 1
     /\ Head(url) = "/files/"
     /\ Find(Tail(url), "/") = 0
    THEN Some(Tail(url)) ELSE None

\* earl_box.py:19-24   serve_file: HTTPException(status_code=404) when
\* get_file_path finds nothing, FileResponse(file_path), whose status code is
\* 200, otherwise.
serve_file(filename) ==
  IF get_file_path(filename) = None
    THEN [status |-> 404, path |-> None]
    ELSE [status |-> 200, path |-> get_file_path(filename)]

\* GET url
Get(url) ==
  IF RouteFilename(url) = None
    THEN [status |-> 404, path |-> None]
    ELSE serve_file(The(RouteFilename(url)))

\* The URLs a client opens: the public_url of every row, and one of no row.
ServedUrls == { r.public_url : r \in Rows } \cup { PublicUrl(<<"n">>) }

ServeFile(url) ==
  /\ reply' = [op |-> "serve", url |-> url, response |-> Get(url)]
  /\ UNCHANGED << dirExists, blobs, table, clock, pc, args, stored_filename,
                  uploaded_file, result, raised, calls, faults, returned >>

\* ------------------------------------------------------- specification ----
\* One caller: it makes its upload calls one after another and reads between
\* them.
Caller == "p1"

Quiet == \A p \in Procs : pc[p] \in { "idle", "done" }

Upload(p) ==
  \/ Call(p)
  \/ CheckInput(p)
  \/ EnsureDir(p)
  \/ GenerateName(p)
  \/ OpenBlob(p)
  \/ WriteBlob(p)
  \/ BuildRecord(p)
  \/ Commit(p)
  \/ Refresh(p)
  \/ Except(p)

Next ==
  \/ Call(Caller) /\ UNCHANGED ev
  \/ CheckInput(Caller) /\ UNCHANGED ev
  \/ EnsureDir(Caller) /\ UNCHANGED ev
  \/ GenerateName(Caller) /\ UNCHANGED ev
  \/ OpenBlob(Caller) /\ UNCHANGED ev
  \/ WriteBlob(Caller) /\ UNCHANGED ev
  \/ BuildRecord(Caller) /\ UNCHANGED ev
  \/ Commit(Caller) /\ UNCHANGED ev
  \/ Refresh(Caller) /\ UNCHANGED ev
  \/ Except(Caller) /\ UNCHANGED ev
  \/ Quiet /\ GetFileStats /\ UNCHANGED ev
  \/ Quiet /\ GetAllUploadedFiles /\ UNCHANGED ev
  \/ Quiet /\ UNCHANGED ev /\ \E name \in QueryNames : GetFilePath(name)
  \/ Quiet /\ UNCHANGED ev /\ \E url \in ServedUrls : ServeFile(url)

Spec == Init /\ [][Next]_vars

\* Simultaneous uploads: the callers invoke save_uploaded_file together, one
\* call each, and the steps of their calls interleave in any order.
StartTogether(p) ==
  /\ \A q \in Procs : pc[q] \in { "idle", "start" }
  /\ pc[p] = "idle"
  /\ Call(p)

NextConc ==
  \E p \in Procs :
    \/ StartTogether(p) /\ UNCHANGED ev
    \/ CheckInput(p) /\ UNCHANGED ev
    \/ EnsureDir(p) /\ UNCHANGED ev
    \/ GenerateName(p) /\ UNCHANGED ev
    \/ OpenBlob(p) /\ UNCHANGED ev
    \/ WriteBlob(p) /\ UNCHANGED ev
    \/ BuildRecord(p) /\ UNCHANGED ev
    \/ Commit(p) /\ UNCHANGED ev
    \/ Refresh(p) /\ UNCHANGED ev
    \/ Except(p) /\ UNCHANGED ev

SpecConc == Init /\ [][NextConc]_vars

\* The two entry points side by side: every step of save_uploaded_file on
\* the one pair of stores is matched by the step of save_upload_event on the
\* other, with the same upload, the same uuid, the same reading of the clock
\* and the same failure of the step's system call.
SameEvent == UploadEvent(args'[Caller])

SameUuid ==
  IF stored_filename'[Caller] # None
    THEN Head(The(stored_filename'[Caller])) ELSE "u1"

SameFault == faults' # faults

Mirror == ev' = save_upload_event(ev, SameEvent, SameUuid, clock', SameFault)

NextTwin ==
  \/ Call(Caller) /\ Mirror
  \/ CheckInput(Caller) /\ Mirror
  \/ EnsureDir(Caller) /\ Mirror
  \/ GenerateName(Caller) /\ Mirror
  \/ OpenBlob(Caller) /\ Mirror
  \/ WriteBlob(Caller) /\ Mirror
  \/ BuildRecord(Caller) /\ Mirror
  \/ Commit(Caller) /\ Mirror
  \/ Refresh(Caller) /\ Mirror
  \/ Except(Caller) /\ Mirror

SpecTwin == Init /\ [][NextTwin]_vars

\* ---------------------------------------------------------------- claims ----
\* The stored name an upload call generated, once it has one.
NameOf(p) == The(stored_filename[p])

\* C1: no orphan metadata: in every reachable state, the states inside an
\* upload included, every row of the table has a file in the content
\* directory under its stored_filename.
C1_NoOrphanMetadata ==
  \A r \in Rows : FileExists(r.stored_filename)

\* C2: round trip: every upload that returned a record returned one whose
\* file_size is the length of the bytes it was given, and in every later state
\* get_file_path of its stored_filename finds a file holding exactly those
\* bytes.
C2_RoundTrip ==
  \A i \in 1..Len(returned) :
    LET rec == returned[i].record
    IN  /\ rec.file_size = returned[i].content.size
        /\ get_file_path(rec.stored_filename) # None
        /\ FileContent(rec.stored_filename) = returned[i].content

\* C3: size limit: a call whose bytes are longer than MAX_FILE_SIZE leaves its
\* first check straight to its end, returns None without raising, and neither
\* the call nor that step changes the content directory or the table; and no
\* row ever has a file_size above MAX_FILE_SIZE.
C3_SizeLimit ==
  [][ /\ \A p \in Procs :
           /\ (pc[p] # "start" /\ pc'[p] = "start") => storage' = storage
           /\ (pc[p] = "start" /\ pc'[p] # "start" /\ args[p].content.size > MAX_FILE_SIZE)
                => /\ pc'[p] = "done"
                   /\ result'[p] = None
                   /\ ~raised'[p]
                   /\ storage' = storage
      /\ \A i \in 1..Len(table') : table'[i].file_size <= MAX_FILE_SIZE ]_vars

\* C3 witness: a call with a present filename and too many bytes has ended
\* with None while the table and the directory hold an earlier upload.
C3_Witness ==
  \E p \in Procs :
    /\ pc[p] = "done"
    /\ args[p].filename # None
    /\ args[p].content.size > MAX_FILE_SIZE
    /\ result[p] = None
    /\ stored_filename[p] = None
    /\ Len(table) = 1
    /\ blobs # {}

\* C4: filename validation: a call whose filename is None or the empty string
\* goes from its first check straight to its end, returns None without
\* raising, and that step leaves the directory, its files and the table as
\* they were.
C4_FilenameValidation ==
  [][ \A p \in Procs :
        (pc[p] = "start" /\ pc'[p] # "start" /\ args[p].filename \in { None, Some(<<>>) })
          => /\ pc'[p] = "done"
             /\ result'[p] = None
             /\ ~raised'[p]
             /\ storage' = storage ]_vars

\* The call failed at the blob write (no record object was built) or at the
\* metadata insert (the object never got an id).
FailedBeforeCommit(p) ==
  \/ uploaded_file[p] = None
  \/ The(uploaded_file[p]).id = None

\* C5: a failed upload leaves no trace: once a call that generated a stored
\* name has returned None because the blob write or the commit failed (and the
\* rollback did not raise), no file and no row exists under that stored name.
C5_FailedUploadLeavesNoTrace ==
  \A p \in Procs :
    ( /\ pc[p] = "done"
      /\ stored_filename[p] # None
      /\ result[p] = None
      /\ ~raised[p]
      /\ FailedBeforeCommit(p) )
    => /\ ~FileExists(NameOf(p))
       /\ NameOf(p) \notin StoredNames

\* C6: the pipeline never propagates a raw fault: whatever fails (creating the
\* directory, writing the blob, inserting the row, deleting the blob in the
\* rollback), no upload call ends with an exception leaving the function.
C6_NeverRaises ==
  \A p \in Procs : ~raised[p]

\* C7: records are immutable and permanent: no step of any later operation
\* removes or changes the row of an upload that has returned its record, nor
\* removes or changes the file under its stored name.
C7_RecordsPermanent ==
  [][ \A i \in 1..Len(returned) :
        LET rec == returned[i].record
        IN  /\ \E k \in 1..Len(table') : table'[k] = rec
            /\ \E b \in blobs' :
                 b = [name |-> rec.stored_filename, content |-> returned[i].content]
    ]_vars

EndsWith(s, t) ==
  /\ Len(t) <= Len(s)
  /\ SubSeq(s, Len(s) - Len(t) + 1, Len(s)) = t

\* The extension as the written design defines it: the part of the file name
\* from its last ".", the dot included; empty when the name has no ".".
LastDotExtension(name) ==
  IF \E i \in 1..Len(name) : name[i] = "."
    THEN SubSeq(name, RFind(name, "."), Len(name))
    ELSE <<>>

\* The extension of a file name: the tail that starts at a "." which is neither
\* the first nor the last character of the final path component and which no
\* "." or "/" follows; empty when there is no such dot.
IsExtensionStart(name, i) ==
  /\ 1 < i /\ i < Len(name)
  /\ name[i] = "."
  /\ name[i - 1] # "/"
  /\ \A j \in (i + 1)..Len(name) : name[j] \notin { ".", "/" }

FinalExtension(name) ==
  IF \E i \in 1..Len(name) : IsExtensionStart(name, i)
    THEN SubSeq(name, CHOOSE i \in 1..Len(name) : IsExtensionStart(name, i), Len(name))
    ELSE <<>>

\* Any two uploads that returned a record have different stored names and
\* different ids, and no two rows of the table share a stored name.
AllDistinct ==
  /\ \A i, j \in 1..Len(returned) :
       i # j => /\ returned[i].record.stored_filename # returned[j].record.stored_filename
                /\ returned[i].record.id # returned[j].record.id
  /\ \A i, j \in 1..Len(table) :
       i # j => table[i].stored_filename # table[j].stored_filename

RECURSIVE SumReturned(_)
SumReturned(h) ==
  IF h = <<>> THEN 0 ELSE Head(h).content.size + SumReturned(Tail(h))

\* C9: statistics: whenever get_file_stats is called, it returns the number of
\* uploads that returned a record and the sum of the byte lengths of exactly
\* those uploads; (0, 0) when there are none.
C9_Stats ==
  reply.op = "stats" =>
    reply.stats = [total_files |-> Len(returned),
                   total_size_bytes |-> SumReturned(returned)]

\* Where a row stands in a listing.
Pos(files, row) == CHOOSE k \in 1..Len(files) : files[k] = row

\* The listing holds every row of the table exactly once.
EveryRowOnce(files) ==
  /\ Len(files) = Len(table)
  /\ \A i \in 1..Len(table) : \E k \in 1..Len(files) : files[k] = table[i]

C11_RetrievalConfined ==
  reply.op = "path" =>
    /\ reply.path # None <=> (\E b \in blobs : b.name = reply.name)
    /\ reply.path # None => Resolve(reply.name).at = "blob"

\* What a call returns when it runs alone and nothing fails: a record exactly
\* when it has a filename and no more than MAX_FILE_SIZE bytes.
AcceptedAlone(p) ==
  /\ args[p].filename # None
  /\ args[p].content.size <= MAX_FILE_SIZE

\* C12: concurrent uploads are independent: when simultaneous uploads have all
\* ended and nothing failed, each has the outcome it has alone (a record for
\* an accepted input, None otherwise, no exception), the record and the blob
\* of each successful one are in place with its own bytes, and the table and
\* the directory hold exactly one row and one file per successful upload.
C12_ConcurrentIndependent ==
  ( faults = 0 /\ \A p \in Procs : pc[p] \in { "idle", "done" } ) =>
    LET ok == { p \in Procs : result[p] # None }
    IN  /\ \A p \in Procs :
             pc[p] = "done" => /\ ~raised[p]
                               /\ result[p] # None <=> AcceptedAlone(p)
        /\ \A p \in ok :
             /\ The(result[p]).original_filename = The(args[p].filename)
             /\ The(result[p]).file_size = args[p].content.size
             /\ \E k \in 1..Len(table) : table[k] = The(result[p])
             /\ [name |-> The(result[p]).stored_filename,
                 content |-> args[p].content] \in blobs
        /\ Len(table) = Cardinality(ok)
        /\ Cardinality(blobs) = Cardinality(ok)

\* C13: the public URL serves the file: every row's public_url is "/files/"
\* followed by exactly its stored_filename, and in every state after an upload
\* returned its record a GET of that record's public_url is answered with the
\* file stored under its stored_filename, not with a 404.
C13_PublicUrlServes ==
  /\ \A r \in Rows : r.public_url = <<"/files/">> \o r.stored_filename
  /\ \A i \in 1..Len(returned) :
       LET rec == returned[i].record
       IN  /\ Get(rec.public_url).status = 200
           /\ Get(rec.public_url).path =
                Some([dir |-> UPLOADS_DIR, name |-> rec.stored_filename])

\* C14: the two upload entry points are equivalent.  Given the same filename,
\* content, declared content type, generated name, timestamp and failures,
\* save_upload_event has returned exactly when save_uploaded_file has, and
\* then both returned the same record (or both None, or both raised) and left
\* the same files in the content directory and the same rows in the table.
C14_EntryPointsEquivalent ==
  /\ ev.pc = "done" <=> pc[Caller] = "done"
  /\ pc[Caller] = "done" =>
       /\ ev.result = result[Caller]
       /\ ev.raised = raised[Caller]
       /\ ev.dirExists = dirExists
       /\ ev.blobs = blobs
       /\ ev.table = table

\* Both entry points accepted an upload after an earlier one of theirs failed
\* or was rejected, and agree on the record, the file and the row.
C14_Witness ==
  /\ pc[Caller] = "done" /\ ev.pc = "done"
  /\ calls = MaxCalls
  /\ ev.result # None /\ ev.result = result[Caller]
  /\ Len(ev.table) = 1 /\ ev.table = table
  /\ ev.blobs # {} /\ ev.blobs = blobs

====
